---- MODULE Spec2Model ----
(***************************************************************************)
(* Model of the RAG prototype: hybrid retrieval fusion                     *)
(* (utils/retriever.py), the context assembly walk of /ask (main.py), the  *)
(* batch loader (utils/loader.py) and the PDF page segmentation            *)
(* (utils/extractors.py).                                                  *)
(*                                                                         *)
(* Strings on the retrieval side are run-length encoded: a string is a     *)
(* sequence of runs [c |-> character, n |-> count], no two neighbouring    *)
(* runs with the same character and no run of length 0.  Lengths, strip(), *)
(* slicing and concatenation are computed on that encoding.                *)
(* Strings on the extraction side are sequences of characters.             *)
(* Python's None is the empty tuple <<>>; a present value v is <<v>>.      *)
(***************************************************************************)
EXTENDS Integers, Sequences, FiniteSets, TLC

VARIABLES
    k,              \* build_hybrid_retriever(k): result size of the retriever
    pc,             \* position of the /ask handler
    sparse_docs,    \* ranked list returned by the BM25 retriever
    dense_docs,     \* ranked list returned by the FAISS retriever
    docs,           \* fused list returned by retriever.get_relevant_documents
    sorted_docs,    \* docs sorted by len(page_content)
    pos,            \* position of the for loop in sorted_docs
    context,        \* the context string under construction
    total_chars,    \* running character count
    included_docs,  \* chunks appended to the context
    seen_sources,   \* set of (source, page_number) already included
    prompt_context, \* context.strip() as placed in the user message
    result,         \* value returned by /ask
    raw_text,       \* extract_text_from_pdf: text of the page being segmented
    lines,          \* raw_text.splitlines()
    merged_lines,   \* result of the line-merge loop
    page_text,      \* the page string that is split into chunks
    paragraph_chunks, \* pieces returned by re.split
    page_documents, \* Documents emitted for the page
    spc,            \* position in the segmentation of one page
    folder,         \* load_documents_from_folder: the folder and its entries
    entry_idx,      \* position of the rglob loop
    all_docs,       \* chunks collected by the loader
    documents,      \* extract_text_from_pdf: chunks of the pages read so far
    page_num,       \* extract_text_from_pdf: pages read so far
    log,            \* lines printed by the loader and the extractors
    lpc,            \* position of the loader
    reqs,           \* concurrent /ask requests: the local variables of each
    disk_index,     \* chunk set of the index persisted under VECTORSTORE_PATH
    vs_index,       \* chunk set of the vectorstore the dense retriever holds
    bm25_docs,      \* chunk set the sparse retriever was built from
    query_docs,     \* chunks returned by the last /query
    build_docs,     \* chunks the last /build wrote to the persisted index
    build_response  \* what the last /build answered: "none", "ok", "error"

askvars == <<k, pc, sparse_docs, dense_docs, docs, sorted_docs, pos, context,
             total_chars, included_docs, seen_sources, prompt_context, result>>

segvars == <<raw_text, lines, merged_lines, page_text, paragraph_chunks,
             page_documents, spc>>

loadvars == <<folder, entry_idx, all_docs, documents, page_num, log, lpc>>

concvars == <<reqs>>

indexvars == <<disk_index, vs_index, bm25_docs, query_docs, build_docs,
               build_response>>

vars == <<askvars, segvars, loadvars, concvars, indexvars>>

----------------------------------------------------------------------------
(* Bounds *)

MaxK == 3
MaxList == 3
MaxRaw == 5
MaxFiles == 3

----------------------------------------------------------------------------
(* Run-length encoded strings *)

None == <<>>

Whitespace == {" ", "\n"}

RECURSIVE StrLen(_)
StrLen(s) == IF s = <<>> THEN 0 ELSE Head(s).n + StrLen(Tail(s))

Cat(a, b) ==
    IF a = <<>> THEN b
    ELSE IF b = <<>> THEN a
    ELSE IF a[Len(a)].c = b[1].c
         THEN SubSeq(a, 1, Len(a) - 1)
              \o <<[c |-> b[1].c, n |-> a[Len(a)].n + b[1].n]>>
              \o Tail(b)
         ELSE a \o b

RECURSIVE LStrip(_)
LStrip(s) ==
    IF s = <<>> THEN <<>>
    ELSE IF Head(s).c \in Whitespace THEN LStrip(Tail(s)) ELSE s

RECURSIVE RStrip(_)
RStrip(s) ==
    IF s = <<>> THEN <<>>
    ELSE IF s[Len(s)].c \in Whitespace THEN RStrip(SubSeq(s, 1, Len(s) - 1))
         ELSE s

Strip(s) == RStrip(LStrip(s))

RECURSIVE Slice(_, _)
Slice(s, m) ==
    IF s = <<>> \/ m <= 0 THEN <<>>
    ELSE IF Head(s).n >= m THEN <<[c |-> Head(s).c, n |-> m]>>
         ELSE <<Head(s)>> \o Slice(Tail(s), m - Head(s).n)

Newline == <<[c |-> "\n", n |-> 1]>>

----------------------------------------------------------------------------
(* Documents *)

Get(metadata, key) ==
    IF key \in DOMAIN metadata THEN metadata[key] ELSE None

GetDefault(metadata, key, default) ==
    IF key \in DOMAIN metadata THEN metadata[key] ELSE default

Run(ch, m) == <<[c |-> ch, n |-> m]>>

PdfDoc(src, page, para, content) ==
    [page_content |-> content,
     metadata |-> [source |-> <<src>>, page_number |-> <<page>>,
                   paragraph |-> para]]

FlatDoc(src, content) ==
    [page_content |-> content, metadata |-> [source |-> <<src>>]]

Corpus ==
    { PdfDoc("f1.pdf", 1, <<"5">>, Run("a", 10)),
      PdfDoc("f1.pdf", 1, <<"6">>, Run("b", 2000)),
      PdfDoc("f1.pdf", 2, None, Run("a", 2000)),
      PdfDoc("f1.pdf", 2, <<"7">>, Run("a", 3000)),
      FlatDoc("data/f2.docx", Run("c", 4001)),
      PdfDoc("f3.pdf", 1, None, Run(" ", 1) \o Run("a", 10) \o Run("\n", 1)) }

RankedLists(m) ==
    { s \in UNION { [1..n -> Corpus] : n \in 0..m } :
        \A i, j \in 1..Len(s) : i # j => s[i] # s[j] }

ConcIdle == reqs = <<>>

IndexIdle ==
    /\ disk_index = {}
    /\ vs_index = {}
    /\ bm25_docs = {}
    /\ query_docs = <<>>
    /\ build_docs = <<>>
    /\ build_response = "none"

----------------------------------------------------------------------------
(* utils/retriever.py *)

DocId(doc) ==
    <<Get(doc.metadata, "source"), Get(doc.metadata, "page_number"),
      Slice(doc.page_content, 50)>>

RECURSIVE MergeLoop_NoSeenCheck(_, _, _)
MergeLoop_NoSeenCheck(list, merged_docs, docs_seen) ==
    IF list = <<>> THEN [merged_docs |-> merged_docs, docs_seen |-> docs_seen]
    ELSE MergeLoop_NoSeenCheck(Tail(list), Append(merged_docs, Head(list)),
                               docs_seen \cup {DocId(Head(list))})

RECURSIVE MergeLoop(_, _, _)
MergeLoop(list, merged_docs, docs_seen) ==
    IF list = <<>> THEN [merged_docs |-> merged_docs, docs_seen |-> docs_seen]
    ELSE IF DocId(Head(list)) \notin docs_seen
         THEN MergeLoop(Tail(list), Append(merged_docs, Head(list)),
                        docs_seen \cup {DocId(Head(list))})
         ELSE MergeLoop(Tail(list), merged_docs, docs_seen)

Truncate_Off(merged_docs, kk) == merged_docs

Truncate(merged_docs, kk) ==
    SubSeq(merged_docs, 1, IF Len(merged_docs) < kk THEN Len(merged_docs) ELSE kk)

hybrid_get_relevant_documents(sparse, dense, kk) ==
    LET afterSparse == MergeLoop(sparse, <<>>, {})
        afterDense  == MergeLoop(dense, afterSparse.merged_docs,
                                 afterSparse.docs_seen)
    IN  Truncate(afterDense.merged_docs, kk)

----------------------------------------------------------------------------
(* utils/extractors.py: segmentation of one PDF page.                      *)
(* A string is a sequence of characters of Chars: "a" a lower-case letter, *)
(* "B" an upper-case letter, "1" a digit, "§", " " and "\n".  The optional *)
(* group (?:\s*Abs\.\s*\d+)? of the split pattern cannot match a string    *)
(* over Chars and is left out of SectionAhead.                             *)

Chars == {"a", "B", "1", "§", " ", "\n"}

LowerLetters == {"a"}

UpperLetters == {"B"}

Letters == LowerLetters \cup UpperLetters

Digits == {"1"}

WordChars == Letters \cup Digits

RECURSIVE CLStrip(_)
CLStrip(s) ==
    IF s = <<>> THEN <<>>
    ELSE IF Head(s) \in Whitespace THEN CLStrip(Tail(s)) ELSE s

RECURSIVE CRStrip(_)
CRStrip(s) ==
    IF s = <<>> THEN <<>>
    ELSE IF s[Len(s)] \in Whitespace THEN CRStrip(SubSeq(s, 1, Len(s) - 1))
         ELSE s

CStrip(s) == CRStrip(CLStrip(s))

RECURSIVE SplitLines(_)
SplitLines(s) ==
    IF s = <<>> THEN <<>>
    ELSE IF \E i \in 1..Len(s) : s[i] = "\n"
         THEN LET i == CHOOSE i \in 1..Len(s) :
                          s[i] = "\n" /\ \A j \in 1..(i - 1) : s[j] # "\n"
              IN  <<SubSeq(s, 1, i - 1)>> \o SplitLines(SubSeq(s, i + 1, Len(s)))
         ELSE <<s>>

RECURSIVE Join(_, _)
Join(sep, list) ==
    IF list = <<>> THEN <<>>
    ELSE IF Len(list) = 1 THEN list[1]
         ELSE list[1] \o sep \o Join(sep, Tail(list))

ContinuesPrevious(clean) == clean[1] \in Letters

RECURSIVE MergeLines(_, _, _)
MergeLines(rest, merged, buffer) ==
    IF rest = <<>>
    THEN IF buffer # <<>> THEN Append(merged, CStrip(buffer)) ELSE merged
    ELSE LET clean == CStrip(Head(rest))
         IN  IF clean = <<>> THEN MergeLines(Tail(rest), merged, buffer)
             ELSE IF ContinuesPrevious(clean) /\ buffer # <<>>
                  THEN MergeLines(Tail(rest), merged, buffer \o <<" ">> \o clean)
                  ELSE MergeLines(Tail(rest),
                                  IF buffer # <<>>
                                  THEN Append(merged, CStrip(buffer))
                                  ELSE merged,
                                  clean)

RECURSIVE StrippedNonEmpty(_)
StrippedNonEmpty(list) ==
    IF list = <<>> THEN <<>>
    ELSE (IF CStrip(Head(list)) # <<>> THEN <<CStrip(Head(list))>> ELSE <<>>)
         \o StrippedNonEmpty(Tail(list))

PageText(ls) == Join(<<"\n">>, StrippedNonEmpty(ls))

At(s, i) == IF i \in 1..Len(s) THEN <<s[i]>> ELSE None

RECURSIVE SkipWhile(_, _, _)
SkipWhile(s, i, set) ==
    IF i <= Len(s) /\ s[i] \in set THEN SkipWhile(s, i + 1, set) ELSE i

IsWord(s, i) == i \in 1..Len(s) /\ s[i] \in WordChars

\* \b at the position before s[i]
WordBoundary(s, i) == IsWord(s, i - 1) # IsWord(s, i)

\* the position after a match of \d+[a-zA-Z]? starting at i, taken greedily
NumberEnd(s, i) ==
    LET e == SkipWhile(s, i, Digits)
    IN  IF e <= Len(s) /\ s[e] \in Letters THEN e + 1 ELSE e

\* §\s?\d+ matches at i: the index of the first digit, 0 when no match
SectionDigits(s, i) ==
    IF At(s, i) # <<"§">> THEN 0
    ELSE IF i + 1 <= Len(s) /\ s[i + 1] \in Digits THEN i + 1
    ELSE IF i + 2 <= Len(s) /\ s[i + 1] \in Whitespace /\ s[i + 2] \in Digits
         THEN i + 2
    ELSE 0

\* the lookahead \n?\s*§\s?\d+[a-zA-Z]?\b succeeds at the position before s[i]
SectionAhead(s, i) ==
    LET j == SkipWhile(s, i, Whitespace)
        d == SectionDigits(s, j)
        e == SkipWhile(s, d, Digits)
    IN  /\ d # 0
        /\ \/ WordBoundary(s, e)
           \/ e <= Len(s) /\ s[e] \in Letters /\ WordBoundary(s, e + 1)

RECURSIVE SplitAt(_, _, _)
SplitAt(s, from, i) ==
    IF i > Len(s) THEN <<SubSeq(s, from, Len(s))>>
    ELSE IF SectionAhead(s, i)
         THEN <<SubSeq(s, from, i - 1)>> \o SplitAt(s, i, i + 1)
         ELSE SplitAt(s, from, i + 1)

ReSplit(s) == SplitAt(s, 1, 1)

RECURSIVE SearchParagraph(_, _)
SearchParagraph(s, i) ==
    IF i > Len(s) THEN None
    ELSE IF SectionDigits(s, i) # 0
         THEN <<SubSeq(s, SectionDigits(s, i),
                       NumberEnd(s, SectionDigits(s, i)) - 1)>>
         ELSE SearchParagraph(s, i + 1)

ChunkDocument(chunk, name, page_index) ==
    LET stripped == CStrip(chunk)
        clean_chunk == IF stripped[1] = "§" THEN stripped
                       ELSE <<"§", " ">> \o stripped
    IN  [page_content |-> clean_chunk,
         metadata |-> [source |-> <<name>>, page_number |-> <<page_index + 1>>,
                       paragraph |-> SearchParagraph(clean_chunk, 1)]]

RECURSIVE ChunkDocuments(_, _, _)
ChunkDocuments(chunks, name, page_index) ==
    IF chunks = <<>> THEN <<>>
    ELSE (IF CStrip(Head(chunks)) = <<>> THEN <<>>
          ELSE <<ChunkDocument(Head(chunks), name, page_index)>>)
         \o ChunkDocuments(Tail(chunks), name, page_index)

SegmentPage(raw, name, page_index) ==
    LET ls == SplitLines(raw)
    IN  ChunkDocuments(ReSplit(PageText(ls)),
                       name, page_index)

RawTexts == UNION { [1..n -> Chars] : n \in 0..MaxRaw }

SegName == "page.pdf"

SegInit ==
    /\ raw_text \in RawTexts
    /\ lines = <<>>
    /\ merged_lines = <<>>
    /\ page_text = <<>>
    /\ paragraph_chunks = <<>>
    /\ page_documents = <<>>
    /\ spc = "page"

SegIdle ==
    /\ raw_text = <<>>
    /\ lines = <<>>
    /\ merged_lines = <<>>
    /\ page_text = <<>>
    /\ paragraph_chunks = <<>>
    /\ page_documents = <<>>
    /\ spc = "idle"

SegMergeLines ==
    /\ spc = "page"
    /\ lines' = SplitLines(raw_text)
    /\ merged_lines' = MergeLines(SplitLines(raw_text), <<>>, <<>>)
    /\ spc' = "merged"
    /\ UNCHANGED <<askvars, loadvars, concvars, indexvars, raw_text, page_text, paragraph_chunks,
                   page_documents>>

SegReassemble ==
    /\ spc = "merged"
    /\ page_text' = PageText(lines)
    /\ spc' = "text"
    /\ UNCHANGED <<askvars, loadvars, concvars, indexvars, raw_text, lines, merged_lines, paragraph_chunks,
                   page_documents>>

SegSplit ==
    /\ spc = "text"
    /\ paragraph_chunks' = ReSplit(page_text)
    /\ spc' = "split"
    /\ UNCHANGED <<askvars, loadvars, concvars, indexvars, raw_text, lines, merged_lines, page_text,
                   page_documents>>

SegEmit ==
    /\ spc = "split"
    /\ page_documents' = ChunkDocuments(paragraph_chunks, SegName, 0)
    /\ spc' = "emitted"
    /\ UNCHANGED <<askvars, loadvars, concvars, indexvars, raw_text, lines, merged_lines, page_text,
                   paragraph_chunks>>

AskIdle ==
    /\ k = 1
    /\ pc = "off"
    /\ sparse_docs = <<>>
    /\ dense_docs = <<>>
    /\ docs = <<>>
    /\ sorted_docs = <<>>
    /\ pos = 0
    /\ context = <<>>
    /\ total_chars = 0
    /\ included_docs = <<>>
    /\ seen_sources = {}
    /\ prompt_context = <<>>
    /\ result = None

SegNext ==
    \/ SegMergeLines
    \/ SegReassemble
    \/ SegSplit
    \/ SegEmit

----------------------------------------------------------------------------
(* utils/extractors.py and utils/loader.py: loading a folder *)

ExtractDocx(file) ==
    LET kept == SelectSeq(file.paragraphs, LAMBDA t : CStrip(t) # <<>>)
    IN  <<[page_content |-> CStrip(Join(<<"\n">>, kept)),
           metadata |-> [source |-> <<file.path>>]]>>

RowText(row) ==
    LET present == SelectSeq(row, LAMBDA cell : cell # None)
    IN  [i \in 1..Len(present) |-> present[i][1]]

RECURSIVE SheetText(_)
SheetText(rows) ==
    IF rows = <<>> THEN <<>>
    ELSE (IF RowText(Head(rows)) # <<>>
          THEN Join(<<" ", "|", " ">>, RowText(Head(rows))) \o <<"\n">>
          ELSE <<>>)
         \o SheetText(Tail(rows))

ExtractXlsx(file) ==
    <<[page_content |-> CStrip(SheetText(file.rows)),
       metadata |-> [source |-> <<file.path>>]]>>

OnPdfException_KeepPages(docs_so_far) == docs_so_far

OnPdfException(docs_so_far) == <<>>

SUPPORTED_SUFFIXES == {".pdf", ".docx", ".xlsx", ".xlsm", ".xls"}

Lower(suffix) ==
    IF suffix = ".PDF" THEN ".pdf"
    ELSE IF suffix = ".DOCX" THEN ".docx"
    ELSE suffix

FilePool ==
    { [name |-> "s.pdf", path |-> "data/s.pdf", suffix |-> ".pdf",
       is_file |-> TRUE,
       pages |-> << <<"§", "1", " ", "a", "\n", "B">>, <<"a", "\n", "§", "1", "a">> >>,
       paragraphs |-> <<>>, rows |-> <<>>],
      [name |-> "t.PDF", path |-> "data/sub/t.PDF", suffix |-> ".PDF",
       is_file |-> TRUE,
       pages |-> << <<" ", "\n">>, <<"B", " ", "§", " ", "1">> >>,
       paragraphs |-> <<>>, rows |-> <<>>],
      [name |-> "e.pdf", path |-> "data/e.pdf", suffix |-> ".pdf",
       is_file |-> TRUE, pages |-> << <<>> >>,
       paragraphs |-> <<>>, rows |-> <<>>],
      [name |-> "w.docx", path |-> "data/w.docx", suffix |-> ".docx",
       is_file |-> TRUE, pages |-> <<>>,
       paragraphs |-> << <<"B", " ">>, <<" ">>, <<"a">> >>, rows |-> <<>>],
      [name |-> "x.xlsx", path |-> "data/x.xlsx", suffix |-> ".xlsx",
       is_file |-> TRUE, pages |-> <<>>, paragraphs |-> <<>>,
       rows |-> << << <<<<"1">>>>, None, <<<<"a", "a">>>> >>,
                   <<None>>,
                   << <<<<"B">>>> >> >>],
      [name |-> "n.txt", path |-> "data/n.txt", suffix |-> ".txt",
       is_file |-> TRUE, pages |-> <<>>, paragraphs |-> <<>>, rows |-> <<>>],
      [name |-> "d.pdf", path |-> "data/d.pdf", suffix |-> ".pdf",
       is_file |-> FALSE, pages |-> <<>>, paragraphs |-> <<>>, rows |-> <<>>] }

Folders ==
    { s \in UNION { [1..n -> FilePool] : n \in 0..MaxFiles } :
        \A i, j \in 1..Len(s) : i # j => s[i] # s[j] }

Supported(file) == file.is_file /\ Lower(file.suffix) \in SUPPORTED_SUFFIXES

\* loader.py lines 51-58: what the loader does with an extractor's result
Collect(docs_of_file) ==
    IF docs_of_file = <<>>
    THEN /\ log' = Append(log, <<"Keine Inhalte extrahiert aus", entry_idx>>)
         /\ UNCHANGED all_docs
    ELSE /\ log' = Append(log, <<"Verarbeitet", entry_idx, Len(docs_of_file)>>)
         /\ all_docs' = all_docs \o docs_of_file

\* the same after the extractor printed its error message
CollectAfterError(docs_of_file, where) ==
    LET printed == Append(log, <<"Fehler", entry_idx, where>>)
    IN  IF docs_of_file = <<>>
        THEN /\ log' = Append(printed, <<"Keine Inhalte extrahiert aus", entry_idx>>)
             /\ UNCHANGED all_docs
        ELSE /\ log' = Append(printed, <<"Verarbeitet", entry_idx,
                                         Len(docs_of_file)>>)
             /\ all_docs' = all_docs \o docs_of_file

LoadMissingFolder ==
    /\ lpc = "called"
    /\ ~folder.exists
    /\ lpc' = "returned"
    /\ UNCHANGED <<askvars, segvars, concvars, indexvars, folder, entry_idx, all_docs, documents,
                   page_num, log>>

LoadBegin ==
    /\ lpc = "called"
    /\ folder.exists
    /\ entry_idx' = 1
    /\ lpc' = "loop"
    /\ UNCHANGED <<askvars, segvars, concvars, indexvars, folder, all_docs, documents, page_num,
                   log>>

LoadSkipEntry ==
    /\ lpc = "loop"
    /\ entry_idx <= Len(folder.entries)
    /\ ~Supported(folder.entries[entry_idx])
    /\ entry_idx' = entry_idx + 1
    /\ UNCHANGED <<askvars, segvars, concvars, indexvars, folder, all_docs, documents, page_num,
                   log, lpc>>

PdfOpen ==
    /\ lpc = "loop"
    /\ entry_idx <= Len(folder.entries)
    /\ Supported(folder.entries[entry_idx])
    /\ Lower(folder.entries[entry_idx].suffix) = ".pdf"
    /\ documents' = <<>>
    /\ page_num' = 0
    /\ lpc' = "pdf"
    /\ UNCHANGED <<askvars, segvars, concvars, indexvars, folder, entry_idx, all_docs, log>>

PdfOpenFails ==
    /\ lpc = "loop"
    /\ entry_idx <= Len(folder.entries)
    /\ Supported(folder.entries[entry_idx])
    /\ Lower(folder.entries[entry_idx].suffix) = ".pdf"
    /\ CollectAfterError(OnPdfException(<<>>), -1)
    /\ entry_idx' = entry_idx + 1
    /\ UNCHANGED <<askvars, segvars, concvars, indexvars, folder, documents, page_num, lpc>>

PdfPage ==
    /\ lpc = "pdf"
    /\ page_num < Len(folder.entries[entry_idx].pages)
    /\ documents' = documents
          \o SegmentPage(folder.entries[entry_idx].pages[page_num + 1],
                         folder.entries[entry_idx].name, page_num)
    /\ page_num' = page_num + 1
    /\ UNCHANGED <<askvars, segvars, concvars, indexvars, folder, entry_idx, all_docs, log, lpc>>

PdfPageFails ==
    /\ lpc = "pdf"
    /\ page_num < Len(folder.entries[entry_idx].pages)
    /\ CollectAfterError(OnPdfException(documents), page_num)
    /\ entry_idx' = entry_idx + 1
    /\ lpc' = "loop"
    /\ UNCHANGED <<askvars, segvars, concvars, indexvars, folder, documents, page_num>>

PdfReturn ==
    /\ lpc = "pdf"
    /\ page_num = Len(folder.entries[entry_idx].pages)
    /\ Collect(documents)
    /\ entry_idx' = entry_idx + 1
    /\ lpc' = "loop"
    /\ UNCHANGED <<askvars, segvars, concvars, indexvars, folder, documents, page_num>>

DocxExtract ==
    /\ lpc = "loop"
    /\ entry_idx <= Len(folder.entries)
    /\ Supported(folder.entries[entry_idx])
    /\ Lower(folder.entries[entry_idx].suffix) = ".docx"
    /\ Collect(ExtractDocx(folder.entries[entry_idx]))
    /\ entry_idx' = entry_idx + 1
    /\ UNCHANGED <<askvars, segvars, concvars, indexvars, folder, documents, page_num, lpc>>

DocxFails ==
    /\ lpc = "loop"
    /\ entry_idx <= Len(folder.entries)
    /\ Supported(folder.entries[entry_idx])
    /\ Lower(folder.entries[entry_idx].suffix) = ".docx"
    /\ CollectAfterError(<<>>, -1)
    /\ entry_idx' = entry_idx + 1
    /\ UNCHANGED <<askvars, segvars, concvars, indexvars, folder, documents, page_num, lpc>>

XlsxExtract ==
    /\ lpc = "loop"
    /\ entry_idx <= Len(folder.entries)
    /\ Supported(folder.entries[entry_idx])
    /\ Lower(folder.entries[entry_idx].suffix) \in {".xlsx", ".xlsm", ".xls"}
    /\ Collect(ExtractXlsx(folder.entries[entry_idx]))
    /\ entry_idx' = entry_idx + 1
    /\ UNCHANGED <<askvars, segvars, concvars, indexvars, folder, documents, page_num, lpc>>

XlsxFails ==
    /\ lpc = "loop"
    /\ entry_idx <= Len(folder.entries)
    /\ Supported(folder.entries[entry_idx])
    /\ Lower(folder.entries[entry_idx].suffix) \in {".xlsx", ".xlsm", ".xls"}
    /\ CollectAfterError(<<>>, -1)
    /\ entry_idx' = entry_idx + 1
    /\ UNCHANGED <<askvars, segvars, concvars, indexvars, folder, documents, page_num, lpc>>

LoadReturn ==
    /\ lpc = "loop"
    /\ entry_idx > Len(folder.entries)
    /\ log' = Append(log, <<"Gesamtdokumente/Chunks geladen", Len(all_docs)>>)
    /\ lpc' = "returned"
    /\ UNCHANGED <<askvars, segvars, concvars, indexvars, folder, entry_idx, all_docs, documents,
                   page_num>>

LoadInit ==
    /\ folder \in [exists : BOOLEAN, entries : Folders]
    /\ ~folder.exists => folder.entries = <<>>
    /\ entry_idx = 0
    /\ all_docs = <<>>
    /\ documents = <<>>
    /\ page_num = 0
    /\ log = <<>>
    /\ lpc = "called"

LoadIdle ==
    /\ folder = [exists |-> FALSE, entries |-> <<>>]
    /\ entry_idx = 0
    /\ all_docs = <<>>
    /\ documents = <<>>
    /\ page_num = 0
    /\ log = <<>>
    /\ lpc = "idle"

LoadNext ==
    \/ LoadMissingFolder
    \/ LoadBegin
    \/ LoadSkipEntry
    \/ PdfOpen
    \/ PdfOpenFails
    \/ PdfPage
    \/ PdfPageFails
    \/ PdfReturn
    \/ DocxExtract
    \/ DocxFails
    \/ XlsxExtract
    \/ XlsxFails
    \/ LoadReturn

InitLoad == AskIdle /\ SegIdle /\ LoadInit /\ ConcIdle /\ IndexIdle

SpecLoad == InitLoad /\ [][LoadNext]_vars

InitSeg == AskIdle /\ SegInit /\ LoadIdle /\ ConcIdle /\ IndexIdle

SpecSeg == InitSeg /\ [][SegNext]_vars

----------------------------------------------------------------------------
(* main.py: /ask *)

Budget == 4000

NoInfoText == "Dazu liegt mir keine verlässliche Information vor."

EmptyRetrievalResponse == [antwort |-> NoInfoText, quellen |-> <<>>]

NoContextResponse_Distinct ==
    [antwort |-> "Kein Abschnitt passt in den Kontext.", quellen |-> <<>>]

NoContextResponse == [antwort |-> NoInfoText, quellen |-> <<>>]

SortKey(doc) == StrLen(doc.page_content)

RECURSIVE InsertSorted(_, _)
InsertSorted(doc, sorted) ==
    IF sorted = <<>> THEN <<doc>>
    ELSE IF SortKey(sorted[Len(sorted)]) <= SortKey(doc)
         THEN Append(sorted, doc)
         ELSE Append(InsertSorted(doc, SubSeq(sorted, 1, Len(sorted) - 1)),
                     sorted[Len(sorted)])

RECURSIVE SortedByLen(_)
SortedByLen(list) ==
    IF list = <<>> THEN <<>>
    ELSE InsertSorted(list[Len(list)],
                      SortedByLen(SubSeq(list, 1, Len(list) - 1)))

SrcId_WithContent(doc) ==
    <<Get(doc.metadata, "source"), Get(doc.metadata, "page_number"),
      Slice(doc.page_content, 50)>>

SrcId(doc) == <<Get(doc.metadata, "source"), Get(doc.metadata, "page_number")>>

DocText_Truncating(doc) == Slice(Strip(doc.page_content), Budget)

DocText(doc) == Strip(doc.page_content)

Fits_BeforeAdding(total, doc_text) == total <= Budget

Fits_Strict(total, doc_text) == total + StrLen(doc_text) < Budget

Fits(total, doc_text) == total + StrLen(doc_text) <= Budget

AppendToContext_BlankLine(ctx, doc_text) ==
    Cat(Cat(Cat(ctx, doc_text), Newline), Newline)

AppendToContext(ctx, doc_text) == Cat(Cat(ctx, doc_text), Newline)

RenderStr(v) == IF v = None THEN "None" ELSE v[1]

RenderInt(v) == IF v = None THEN "None" ELSE ToString(v[1])

RenderPage(metadata) ==
    IF "page_number" \in DOMAIN metadata THEN RenderInt(metadata["page_number"])
    ELSE "-"

Quelle(doc) ==
    LET para == Get(doc.metadata, "paragraph")
        head == <<RenderStr(Get(doc.metadata, "source")), " (Seite ",
                  RenderPage(doc.metadata)>>
    IN  (IF para # None THEN head \o <<", § ", RenderStr(para)>> ELSE head)
        \o <<")">>

ErrorQuelle(doc) ==
    <<RenderStr(GetDefault(doc.metadata, "source", <<"unbekannt">>)), " (Seite ",
      RenderPage(doc.metadata), ")">>

Answers == {"", "antwort"}

Ask ==
    /\ pc = "idle"
    /\ \E sparse \in RankedLists(IF k < MaxList THEN k ELSE MaxList),
          dense \in RankedLists(IF k < MaxList THEN k ELSE MaxList) :
        /\ sparse_docs' = sparse
        /\ dense_docs' = dense
        /\ docs' = hybrid_get_relevant_documents(sparse, dense, k)
    /\ pc' = "retrieved"
    /\ UNCHANGED <<segvars, loadvars, concvars, indexvars, k, sorted_docs, pos, context, total_chars, included_docs,
                   seen_sources, prompt_context, result>>

ReturnEmptyRetrieval ==
    /\ pc = "retrieved"
    /\ docs = <<>>
    /\ result' = EmptyRetrievalResponse
    /\ pc' = "ret116"
    /\ UNCHANGED <<segvars, loadvars, concvars, indexvars, k, sparse_docs, dense_docs, docs, sorted_docs, pos, context,
                   total_chars, included_docs, seen_sources, prompt_context>>

StartWalk ==
    /\ pc = "retrieved"
    /\ docs # <<>>
    /\ sorted_docs' = SortedByLen(docs)
    /\ context' = <<>>
    /\ total_chars' = 0
    /\ included_docs' = <<>>
    /\ seen_sources' = {}
    /\ pos' = 1
    /\ pc' = "walk"
    /\ UNCHANGED <<segvars, loadvars, concvars, indexvars, k, sparse_docs, dense_docs, docs, prompt_context, result>>

WalkSkip ==
    /\ pc = "walk"
    /\ pos <= Len(sorted_docs)
    /\ SrcId(sorted_docs[pos]) \in seen_sources
    /\ pos' = pos + 1
    /\ UNCHANGED <<segvars, loadvars, concvars, indexvars, k, pc, sparse_docs, dense_docs, docs, sorted_docs, context,
                   total_chars, included_docs, seen_sources, prompt_context,
                   result>>

WalkAppend ==
    /\ pc = "walk"
    /\ pos <= Len(sorted_docs)
    /\ SrcId(sorted_docs[pos]) \notin seen_sources
    /\ LET doc == sorted_docs[pos]
           doc_text == DocText(doc)
       IN  /\ Fits(total_chars, doc_text)
           /\ context' = AppendToContext(context, doc_text)
           /\ total_chars' = total_chars + StrLen(doc_text)
           /\ included_docs' = Append(included_docs, doc)
           /\ seen_sources' = seen_sources \cup {SrcId(doc)}
    /\ pos' = pos + 1
    /\ UNCHANGED <<segvars, loadvars, concvars, indexvars, k, pc, sparse_docs, dense_docs, docs, sorted_docs,
                   prompt_context, result>>

WalkBreak_Continue ==
    /\ pc = "walk"
    /\ pos <= Len(sorted_docs)
    /\ SrcId(sorted_docs[pos]) \notin seen_sources
    /\ ~Fits(total_chars, DocText(sorted_docs[pos]))
    /\ pos' = pos + 1
    /\ UNCHANGED <<segvars, loadvars, concvars, indexvars, k, pc, sparse_docs, dense_docs, docs,
                   sorted_docs, context, total_chars, included_docs,
                   seen_sources, prompt_context, result>>

WalkBreak ==
    /\ pc = "walk"
    /\ pos <= Len(sorted_docs)
    /\ SrcId(sorted_docs[pos]) \notin seen_sources
    /\ ~Fits(total_chars, DocText(sorted_docs[pos]))
    /\ pc' = "after"
    /\ UNCHANGED <<segvars, loadvars, concvars, indexvars, k, sparse_docs, dense_docs, docs, sorted_docs, pos, context,
                   total_chars, included_docs, seen_sources, prompt_context,
                   result>>

WalkExhausted ==
    /\ pc = "walk"
    /\ pos > Len(sorted_docs)
    /\ pc' = "after"
    /\ UNCHANGED <<segvars, loadvars, concvars, indexvars, k, sparse_docs, dense_docs, docs, sorted_docs, pos, context,
                   total_chars, included_docs, seen_sources, prompt_context,
                   result>>

ReturnNoContext ==
    /\ pc = "after"
    /\ included_docs = <<>>
    /\ result' = NoContextResponse
    /\ pc' = "ret151"
    /\ UNCHANGED <<segvars, loadvars, concvars, indexvars, k, sparse_docs, dense_docs, docs, sorted_docs, pos, context,
                   total_chars, included_docs, seen_sources, prompt_context>>

PostToLLM ==
    /\ pc = "after"
    /\ included_docs # <<>>
    /\ prompt_context' = Strip(context)
    /\ pc' = "llm"
    /\ UNCHANGED <<segvars, loadvars, concvars, indexvars, k, sparse_docs, dense_docs, docs, sorted_docs, pos, context,
                   total_chars, included_docs, seen_sources, result>>

LLMError ==
    /\ pc = "llm"
    /\ \E status \in {429, 500} :
        result' = [antwort |-> "Fehler bei Anfrage",
                   quellen |-> [i \in 1..Len(included_docs) |->
                                   ErrorQuelle(included_docs[i])]]
    /\ pc' = "ret195"
    /\ UNCHANGED <<segvars, loadvars, concvars, indexvars, k, sparse_docs, dense_docs, docs, sorted_docs, pos, context,
                   total_chars, included_docs, seen_sources, prompt_context>>

LLMAnswer ==
    /\ pc = "llm"
    /\ \E answer \in Answers :
        result' = [antwort |-> answer,
                   quellen |-> [i \in 1..Len(included_docs) |->
                                   Quelle(included_docs[i])]]
    /\ pc' = "ret215"
    /\ UNCHANGED <<segvars, loadvars, concvars, indexvars, k, sparse_docs, dense_docs, docs, sorted_docs, pos, context,
                   total_chars, included_docs, seen_sources, prompt_context>>

LLMRaise ==
    /\ pc = "llm"
    /\ result' = [error |-> "exception"]
    /\ pc' = "ret222"
    /\ UNCHANGED <<segvars, loadvars, concvars, indexvars, k, sparse_docs, dense_docs, docs, sorted_docs, pos, context,
                   total_chars, included_docs, seen_sources, prompt_context>>

AskInit ==
    /\ k \in 1..MaxK
    /\ pc = "idle"
    /\ sparse_docs = <<>>
    /\ dense_docs = <<>>
    /\ docs = <<>>
    /\ sorted_docs = <<>>
    /\ pos = 0
    /\ context = <<>>
    /\ total_chars = 0
    /\ included_docs = <<>>
    /\ seen_sources = {}
    /\ prompt_context = <<>>
    /\ result = None

Init == AskInit /\ SegIdle /\ LoadIdle /\ ConcIdle /\ IndexIdle

Next ==
    \/ Ask
    \/ ReturnEmptyRetrieval
    \/ StartWalk
    \/ WalkSkip
    \/ WalkAppend
    \/ WalkBreak
    \/ WalkExhausted
    \/ ReturnNoContext
    \/ PostToLLM
    \/ LLMError
    \/ LLMAnswer
    \/ LLMRaise

Spec == Init /\ [][Next]_vars

\* the for loop of lines 125-138 runs to its end once it has started
Walk == WalkSkip \/ WalkAppend \/ WalkBreak \/ WalkExhausted

SpecWalk == Init /\ [][Next]_vars /\ WF_vars(Walk)

----------------------------------------------------------------------------
(* main.py and utils/retriever.py: /ask requests served at the same time.  *)
(* Every invocation of ask() and of hybrid_get_relevant_documents() has    *)
(* its own local variables; reqs[r] holds those of request r.  The two     *)
(* retrievers are one object shared by all requests and are only queried:  *)
(* the ranked lists are a function of the question.                        *)

Requests == {"r1", "r2"}

Questions == {"q0", "q1", "q2", "q3"}

SparseResult(question) ==
    IF question = "q1"
    THEN <<PdfDoc("f1.pdf", 1, <<"5">>, Run("a", 10)),
           PdfDoc("f1.pdf", 1, <<"6">>, Run("b", 2000))>>
    ELSE IF question = "q2"
    THEN <<PdfDoc("f1.pdf", 2, None, Run("a", 2000))>>
    ELSE IF question = "q3"
    THEN <<FlatDoc("data/f2.docx", Run("c", 4001))>>
    ELSE <<>>

DenseResult(question) ==
    IF question = "q1"
    THEN <<PdfDoc("f1.pdf", 2, None, Run("a", 2000)),
           PdfDoc("f1.pdf", 1, <<"5">>, Run("a", 10))>>
    ELSE IF question = "q2"
    THEN <<PdfDoc("f1.pdf", 2, <<"7">>, Run("a", 3000)),
           PdfDoc("f1.pdf", 1, <<"6">>, Run("b", 2000))>>
    ELSE <<>>

NewRequest ==
    [pc |-> "idle", question |-> "", sparse_docs |-> <<>>, dense_docs |-> <<>>,
     merged_docs |-> <<>>, docs_seen |-> {}, docs |-> <<>>,
     sorted_docs |-> <<>>, pos |-> 0, context |-> <<>>, total_chars |-> 0,
     included_docs |-> <<>>, seen_sources |-> {}, prompt_context |-> <<>>,
     result |-> None]

Local_SharedSeenSources(r) ==
    [reqs[r] EXCEPT !.seen_sources =
                        UNION { reqs[q].seen_sources : q \in Requests }]

\* the local variables of invocation r
Local(r) == reqs[r]

CAsk(r) ==
    /\ Local(r).pc = "idle"
    /\ \E question \in Questions :
        reqs' = [reqs EXCEPT ![r] =
                    [Local(r) EXCEPT !.question = question,
                                     !.dense_docs = DenseResult(question),
                                     !.sparse_docs = SparseResult(question),
                                     !.docs_seen = {},
                                     !.merged_docs = <<>>,
                                     !.pc = "merge_sparse"]]
    /\ UNCHANGED <<askvars, segvars, loadvars, indexvars>>

CMergeSparse(r) ==
    /\ Local(r).pc = "merge_sparse"
    /\ LET after == MergeLoop(Local(r).sparse_docs, Local(r).merged_docs,
                              Local(r).docs_seen)
       IN  reqs' = [reqs EXCEPT ![r] =
                       [Local(r) EXCEPT !.merged_docs = after.merged_docs,
                                        !.docs_seen = after.docs_seen,
                                        !.pc = "merge_dense"]]
    /\ UNCHANGED <<askvars, segvars, loadvars, indexvars>>

CMergeDense(r) ==
    /\ Local(r).pc = "merge_dense"
    /\ LET after == MergeLoop(Local(r).dense_docs, Local(r).merged_docs,
                              Local(r).docs_seen)
       IN  reqs' = [reqs EXCEPT ![r] =
                       [Local(r) EXCEPT !.merged_docs = after.merged_docs,
                                        !.docs_seen = after.docs_seen,
                                        !.docs = Truncate(after.merged_docs, k),
                                        !.pc = "retrieved"]]
    /\ UNCHANGED <<askvars, segvars, loadvars, indexvars>>

CReturnEmptyRetrieval(r) ==
    /\ Local(r).pc = "retrieved"
    /\ Local(r).docs = <<>>
    /\ reqs' = [reqs EXCEPT ![r] =
                   [Local(r) EXCEPT !.result = EmptyRetrievalResponse,
                                    !.pc = "ret116"]]
    /\ UNCHANGED <<askvars, segvars, loadvars, indexvars>>

CStartWalk(r) ==
    /\ Local(r).pc = "retrieved"
    /\ Local(r).docs # <<>>
    /\ reqs' = [reqs EXCEPT ![r] =
                   [Local(r) EXCEPT !.sorted_docs = SortedByLen(Local(r).docs),
                                    !.context = <<>>,
                                    !.total_chars = 0,
                                    !.included_docs = <<>>,
                                    !.seen_sources = {},
                                    !.pos = 1,
                                    !.pc = "walk"]]
    /\ UNCHANGED <<askvars, segvars, loadvars, indexvars>>

CWalkSkip(r) ==
    /\ Local(r).pc = "walk"
    /\ Local(r).pos <= Len(Local(r).sorted_docs)
    /\ SrcId(Local(r).sorted_docs[Local(r).pos]) \in Local(r).seen_sources
    /\ reqs' = [reqs EXCEPT ![r] = [Local(r) EXCEPT !.pos = @ + 1]]
    /\ UNCHANGED <<askvars, segvars, loadvars, indexvars>>

CWalkAppend(r) ==
    /\ Local(r).pc = "walk"
    /\ Local(r).pos <= Len(Local(r).sorted_docs)
    /\ SrcId(Local(r).sorted_docs[Local(r).pos]) \notin Local(r).seen_sources
    /\ LET doc == Local(r).sorted_docs[Local(r).pos]
           doc_text == DocText(doc)
       IN  /\ Fits(Local(r).total_chars, doc_text)
           /\ reqs' = [reqs EXCEPT ![r] =
                  [Local(r) EXCEPT
                      !.context = AppendToContext(Local(r).context, doc_text),
                      !.total_chars = Local(r).total_chars + StrLen(doc_text),
                      !.included_docs = Append(Local(r).included_docs, doc),
                      !.seen_sources = Local(r).seen_sources \cup {SrcId(doc)},
                      !.pos = @ + 1]]
    /\ UNCHANGED <<askvars, segvars, loadvars, indexvars>>

CWalkBreak(r) ==
    /\ Local(r).pc = "walk"
    /\ Local(r).pos <= Len(Local(r).sorted_docs)
    /\ SrcId(Local(r).sorted_docs[Local(r).pos]) \notin Local(r).seen_sources
    /\ ~Fits(Local(r).total_chars,
             DocText(Local(r).sorted_docs[Local(r).pos]))
    /\ reqs' = [reqs EXCEPT ![r] = [Local(r) EXCEPT !.pc = "after"]]
    /\ UNCHANGED <<askvars, segvars, loadvars, indexvars>>

CWalkExhausted(r) ==
    /\ Local(r).pc = "walk"
    /\ Local(r).pos > Len(Local(r).sorted_docs)
    /\ reqs' = [reqs EXCEPT ![r] = [Local(r) EXCEPT !.pc = "after"]]
    /\ UNCHANGED <<askvars, segvars, loadvars, indexvars>>

CReturnNoContext(r) ==
    /\ Local(r).pc = "after"
    /\ Local(r).included_docs = <<>>
    /\ reqs' = [reqs EXCEPT ![r] =
                   [Local(r) EXCEPT !.result = NoContextResponse,
                                    !.pc = "ret151"]]
    /\ UNCHANGED <<askvars, segvars, loadvars, indexvars>>

CPostToLLM(r) ==
    /\ Local(r).pc = "after"
    /\ Local(r).included_docs # <<>>
    /\ reqs' = [reqs EXCEPT ![r] =
                   [Local(r) EXCEPT !.prompt_context = Strip(Local(r).context),
                                    !.pc = "llm"]]
    /\ UNCHANGED <<askvars, segvars, loadvars, indexvars>>

CLLMError(r) ==
    /\ Local(r).pc = "llm"
    /\ reqs' = [reqs EXCEPT ![r] =
          [Local(r) EXCEPT
              !.result = [antwort |-> "Fehler bei Anfrage",
                          quellen |-> [i \in 1..Len(Local(r).included_docs) |->
                                          ErrorQuelle(Local(r).included_docs[i])]],
              !.pc = "ret195"]]
    /\ UNCHANGED <<askvars, segvars, loadvars, indexvars>>

CLLMAnswer(r) ==
    /\ Local(r).pc = "llm"
    /\ reqs' = [reqs EXCEPT ![r] =
          [Local(r) EXCEPT
              !.result = [antwort |-> "antwort",
                          quellen |-> [i \in 1..Len(Local(r).included_docs) |->
                                          Quelle(Local(r).included_docs[i])]],
              !.pc = "ret215"]]
    /\ UNCHANGED <<askvars, segvars, loadvars, indexvars>>

CLLMRaise(r) ==
    /\ Local(r).pc = "llm"
    /\ reqs' = [reqs EXCEPT ![r] =
                   [Local(r) EXCEPT !.result = [error |-> "exception"],
                                    !.pc = "ret222"]]
    /\ UNCHANGED <<askvars, segvars, loadvars, indexvars>>

ConcInit ==
    /\ k \in 1..MaxK
    /\ pc = "off"
    /\ sparse_docs = <<>>
    /\ dense_docs = <<>>
    /\ docs = <<>>
    /\ sorted_docs = <<>>
    /\ pos = 0
    /\ context = <<>>
    /\ total_chars = 0
    /\ included_docs = <<>>
    /\ seen_sources = {}
    /\ prompt_context = <<>>
    /\ result = None
    /\ reqs = [r \in Requests |-> NewRequest]

InitConc == ConcInit /\ SegIdle /\ LoadIdle /\ IndexIdle

ConcNext ==
    \E r \in Requests :
        \/ CAsk(r)
        \/ CMergeSparse(r)
        \/ CMergeDense(r)
        \/ CReturnEmptyRetrieval(r)
        \/ CStartWalk(r)
        \/ CWalkSkip(r)
        \/ CWalkAppend(r)
        \/ CWalkBreak(r)
        \/ CWalkExhausted(r)
        \/ CReturnNoContext(r)
        \/ CPostToLLM(r)
        \/ CLLMError(r)
        \/ CLLMAnswer(r)
        \/ CLLMRaise(r)

SpecConc == InitConc /\ [][ConcNext]_vars

----------------------------------------------------------------------------
(* main.py, utils/vectorstore.py, utils/retriever.py: the persisted index, *)
(* /build and /query, and the retrievers of /ask built at import time.     *)

SearchAllK == 9999

QueryK == 6

IndexPoolList ==
    << PdfDoc("f1.pdf", 1, <<"5">>, Run("a", 10)),
       PdfDoc("f1.pdf", 1, <<"6">>, Run("c", 4001)) >>

IndexPool == { IndexPoolList[i] : i \in 1..Len(IndexPoolList) }

RECURSIVE Keep(_, _)
Keep(list, S) ==
    IF list = <<>> THEN <<>>
    ELSE IF Head(list) \in S THEN <<Head(list)>> \o Keep(Tail(list), S)
    ELSE Keep(Tail(list), S)

\* FAISS.from_documents, BM25Retriever.from_documents: the chunk set of an
\* index made from a list of chunks
from_documents(list) == { list[i] : i \in 1..Len(list) }

\* what load_documents_from_folder can return: the chunks of the files
\* present in the folder, in the order of the folder
LoadedDocs == { Keep(IndexPoolList, S) : S \in SUBSET IndexPool }

\* similarity_search / get_relevant_documents: the n best chunks of the
\* index, best first, all of the index when it holds fewer than n
SearchResults(index, n) ==
    LET m == IF n < Cardinality(index) THEN n ELSE Cardinality(index)
    IN  { s \in [1..m -> index] : \A i, j \in 1..m : i # j => s[i] # s[j] }

\* vs.similarity_search("", k=9999): the chunk sets the sparse retriever
\* can be built from
AllChunks(index) ==
    { from_documents(s) : s \in SearchResults(index, SearchAllK) }

load_vectorstore == disk_index

\* no /ask is between its retrieval and its return
Served == pc \in {"idle", "ret116", "ret151", "ret195", "ret215", "ret222"}

IndexAsk ==
    /\ Served
    /\ \E sparse \in SearchResults(bm25_docs, k),
          dense \in SearchResults(vs_index, k) :
        /\ sparse_docs' = sparse
        /\ dense_docs' = dense
        /\ docs' = hybrid_get_relevant_documents(sparse, dense, k)
    /\ sorted_docs' = <<>>
    /\ pos' = 0
    /\ context' = <<>>
    /\ total_chars' = 0
    /\ included_docs' = <<>>
    /\ seen_sources' = {}
    /\ prompt_context' = <<>>
    /\ result' = None
    /\ pc' = "retrieved"
    /\ UNCHANGED <<segvars, loadvars, concvars, indexvars, k>>

Query ==
    /\ \E found \in SearchResults(load_vectorstore, QueryK) :
        query_docs' = found
    /\ UNCHANGED <<askvars, segvars, loadvars, concvars, disk_index, vs_index,
                   bm25_docs, build_docs, build_response>>

BuildStore_ReloadsRetrievers ==
    /\ \E loaded \in LoadedDocs :
        /\ loaded # <<>>
        /\ disk_index' = from_documents(loaded)
        /\ vs_index' = from_documents(loaded)
        /\ bm25_docs' = from_documents(loaded)
        /\ build_docs' = loaded
    /\ build_response' = "ok"
    /\ UNCHANGED <<askvars, segvars, loadvars, concvars, query_docs>>

BuildStore ==
    /\ \E loaded \in LoadedDocs :
        /\ loaded # <<>>
        /\ disk_index' = from_documents(loaded)
        /\ build_docs' = loaded
    /\ build_response' = "ok"
    /\ UNCHANGED <<askvars, segvars, loadvars, concvars, vs_index, bm25_docs,
                   query_docs>>

BuildStoreNoDocs ==
    /\ <<>> \in LoadedDocs
    /\ build_docs' = <<>>
    /\ build_response' = "ok"
    /\ UNCHANGED <<askvars, segvars, loadvars, concvars, disk_index, vs_index,
                   bm25_docs, query_docs>>

BuildStoreFails ==
    /\ build_docs' = <<>>
    /\ build_response' = "error"
    /\ UNCHANGED <<askvars, segvars, loadvars, concvars, disk_index, vs_index,
                   bm25_docs, query_docs>>

IndexInit ==
    /\ disk_index \in SUBSET IndexPool \ {{}}
    /\ vs_index = load_vectorstore
    /\ bm25_docs \in AllChunks(vs_index)
    /\ query_docs = <<>>
    /\ build_docs = <<>>
    /\ build_response = "none"

InitIndex == AskInit /\ SegIdle /\ LoadIdle /\ ConcIdle /\ IndexInit

IndexNext ==
    \/ IndexAsk
    \/ StartWalk
    \/ WalkSkip
    \/ WalkAppend
    \/ WalkBreak
    \/ WalkExhausted
    \/ ReturnNoContext
    \/ PostToLLM
    \/ LLMError
    \/ LLMAnswer
    \/ LLMRaise
    \/ Query
    \/ BuildStore
    \/ BuildStoreNoDocs
    \/ BuildStoreFails

SpecIndex == InitIndex /\ [][IndexNext]_vars

----------------------------------------------------------------------------
(* Properties of the retrieval fusion and of the assembly walk *)

PageKey(doc) ==
    <<Get(doc.metadata, "source"), Get(doc.metadata, "page_number")>>

FusionKey(doc) ==
    <<Get(doc.metadata, "source"), Get(doc.metadata, "page_number"),
      Slice(doc.page_content, 50)>>

Range(seq) == { seq[i] : i \in 1..Len(seq) }

Min(a, b) == IF a < b THEN a ELSE b

RECURSIVE SumTrimmed(_)
SumTrimmed(list) ==
    IF list = <<>> THEN 0
    ELSE StrLen(Strip(Head(list).page_content)) + SumTrimmed(Tail(list))

RECURSIVE SumRaw(_)
SumRaw(list) ==
    IF list = <<>> THEN 0
    ELSE StrLen(Head(list).page_content) + SumRaw(Tail(list))

DistinctPages(list) ==
    \A i, j \in 1..Len(list) : i # j => PageKey(list[i]) # PageKey(list[j])

\* C1 (as stated): the fused sequence contains no two chunks that share
\* the same (source, page_number) pair, even when their content differs.
C1_NoTwoChunksPerPage == DistinctPages(docs)

\* C1 (amended): the fused sequence contains no two chunks that share the
\* same (source, page_number, first 50 characters of content) triple.
C1_NoTwoChunksPerFusionKey ==
    \A i, j \in 1..Len(docs) : i # j => FusionKey(docs[i]) # FusionKey(docs[j])

C1_Witness ==
    /\ pc = "retrieved"
    /\ Len(docs) < k
    /\ Len(docs) < Len(sparse_docs) + Len(dense_docs)
    /\ ~DistinctPages(docs)

Claimed(cat, i) == \E j \in 1..(i - 1) : FusionKey(cat[j]) = FusionKey(cat[i])

RECURSIVE Unclaimed(_, _)
Unclaimed(cat, i) ==
    IF i > Len(cat) THEN <<>>
    ELSE (IF Claimed(cat, i) THEN <<>> ELSE <<cat[i]>>) \o Unclaimed(cat, i + 1)

\* C2: the fused sequence is the first k elements of the sparse list
\* followed by the dense list with every already claimed chunk skipped (a
\* chunk is claimed when an earlier one has its source, page_number and
\* first 50 characters); so its length is at most k, chunks of the sparse
\* list precede chunks only the dense list contributed, and it is empty
\* when both lists are empty.
C2_SparseFirstThenDense ==
    pc # "idle" =>
        LET expected == Unclaimed(sparse_docs \o dense_docs, 1)
        IN  /\ docs = SubSeq(expected, 1, Min(k, Len(expected)))
            /\ Len(docs) <= k
            /\ \A i, j \in 1..Len(docs) :
                   (docs[i] \in Range(sparse_docs)
                    /\ docs[j] \notin Range(sparse_docs)) => i < j
            /\ (sparse_docs = <<>> /\ dense_docs = <<>>) => docs = <<>>

C2_Witness ==
    /\ pc = "retrieved"
    /\ Len(Unclaimed(sparse_docs \o dense_docs, 1)) > k
    /\ Len(docs) = k
    /\ \E i \in 1..Len(docs) : docs[i] \notin Range(sparse_docs)
    /\ \E i \in 1..Len(dense_docs) : dense_docs[i] \in Range(sparse_docs)

\* C3: at every step of the assembly walk and at its end the running
\* character count is the sum of the trimmed content lengths of the
\* included chunks, and it never exceeds the budget of 4000.
C3_RunningCountIsTrimmedSum ==
    /\ total_chars = SumTrimmed(included_docs)
    /\ total_chars <= 4000

C3_Witness ==
    /\ pc = "after"
    /\ Len(included_docs) >= 2
    /\ total_chars < SumRaw(included_docs)
    /\ pos <= Len(sorted_docs)

\* C4 (as stated): the context string built by the walk, and the context
\* handed to the LLM, is never longer than 4000 characters.
C4_ContextWithinBudget ==
    /\ StrLen(context) <= 4000
    /\ StrLen(prompt_context) <= 4000

\* C4 (amended): the context string is as long as the running character
\* count plus one newline per included chunk, so it is bounded by
\* 4000 + len(included) and not by 4000; the context handed to the LLM is
\* that string stripped and never longer.
C4_ContextWithinBudgetPlusSeparators ==
    /\ StrLen(context) = total_chars + Len(included_docs)
    /\ StrLen(context) <= 4000 + Len(included_docs)
    /\ StrLen(prompt_context) <= StrLen(context)

C4_Witness ==
    /\ pc = "llm"
    /\ StrLen(prompt_context) > 4000

\* C5: included contains no two chunks of the same (source, page_number),
\* and the returned quellen has one entry per included chunk, in the order
\* of included, no two entries equal.
C5_OneCitationPerIncludedChunk ==
    /\ DistinctPages(included_docs)
    /\ pc \in {"ret151", "ret195", "ret215"} =>
        /\ Len(result.quellen) = Len(included_docs)
        /\ \A i \in 1..Len(included_docs) :
               /\ <<result.quellen[i][1]>> = Get(included_docs[i].metadata, "source")
               /\ "page_number" \in DOMAIN included_docs[i].metadata =>
                      result.quellen[i][3]
                        = ToString(included_docs[i].metadata["page_number"][1])
        /\ \A i, j \in 1..Len(result.quellen) :
               i # j => result.quellen[i] # result.quellen[j]

C5_Witness ==
    /\ pc = "ret215"
    /\ Len(result.quellen) >= 2
    /\ pos > Len(sorted_docs)
    /\ Len(included_docs) < Len(sorted_docs)

\* C6: when the chunks of the fused sequence have pairwise distinct
\* (source, page_number) and their trimmed lengths sum to at most the
\* budget, the walk includes every chunk, whatever the order of arrival.
C6_AllIncludedWhenSumFits ==
    (/\ pc \in {"after", "llm", "ret151", "ret195", "ret215", "ret222"}
     /\ DistinctPages(docs)
     /\ SumTrimmed(docs) <= 4000)
    => /\ Len(included_docs) = Len(docs)
       /\ Range(included_docs) = Range(docs)

C6_Witness ==
    /\ pc = "after"
    /\ DistinctPages(docs)
    /\ SumTrimmed(docs) <= 4000
    /\ Len(docs) = 3
    /\ StrLen(docs[1].page_content) = 3000
    /\ docs # sorted_docs
    /\ Len(included_docs) = 3

ShortestExceedsBudget ==
    /\ docs # <<>>
    /\ \A i \in 1..Len(docs) :
           (\A j \in 1..Len(docs) :
                StrLen(docs[i].page_content) <= StrLen(docs[j].page_content))
           => StrLen(Strip(docs[i].page_content)) > 4000

RECURSIVE WholeChunks(_)
WholeChunks(list) ==
    IF list = <<>> THEN <<>>
    ELSE Cat(Cat(Strip(Head(list).page_content), Newline),
             WholeChunks(Tail(list)))

\* C7: when the shortest chunk of a non-empty fused sequence alone
\* exceeds the budget, included ends empty and /ask returns the "no
\* information" answer with no sources, without a call of the LLM; the
\* context always consists of whole trimmed chunks, each followed by a
\* newline.
C7_WholeChunksOnly ==
    /\ context = WholeChunks(included_docs)
    /\ Range(included_docs) \subseteq Range(docs)
    /\ (ShortestExceedsBudget /\ pc \notin {"idle", "retrieved", "walk"}) =>
           /\ included_docs = <<>>
           /\ pc \in {"after", "ret151"}
           /\ prompt_context = <<>>
           /\ pc = "ret151" =>
                  result = [antwort |-> NoInfoText, quellen |-> <<>>]

C7_Witness ==
    /\ pc = "ret151"
    /\ ShortestExceedsBudget
    /\ context = <<>>

\* C8 (as stated): the result returned when chunks were retrieved but
\* none fits the budget differs from the result returned when both
\* retrievers returned nothing.
C8_OutcomesDistinguishable ==
    /\ pc = "ret151" => result # EmptyRetrievalResponse
    /\ pc = "ret116" => result # NoContextResponse

\* C8 (amended): both outcomes return the same result, the "no
\* information" answer with an empty source list; they differ only in the
\* state of the request (no chunk retrieved / chunks retrieved, none
\* included), which the caller does not see.
C8_OutcomesReturnSameResult ==
    /\ pc = "ret116" =>
           /\ docs = <<>>
           /\ result = [antwort |-> NoInfoText, quellen |-> <<>>]
    /\ pc = "ret151" =>
           /\ docs # <<>>
           /\ included_docs = <<>>
           /\ result = [antwort |-> NoInfoText, quellen |-> <<>>]

C8_Witness ==
    /\ pc = "ret151"
    /\ docs # <<>>
    /\ result = EmptyRetrievalResponse

----------------------------------------------------------------------------
(* Properties of the loader and of the page segmentation *)

Failed(i) == \E e \in Range(log) : e[1] = "Fehler" /\ e[2] = i

Logged(i) == \E e \in Range(log) : e[2] = i /\ e[1] # "Gesamtdokumente/Chunks geladen"

RECURSIVE AllPages(_, _)
AllPages(file, n) ==
    IF n = 0 THEN <<>>
    ELSE AllPages(file, n - 1) \o SegmentPage(file.pages[n], file.name, n - 1)

FileChunks(file) ==
    IF ~Supported(file) THEN <<>>
    ELSE IF Lower(file.suffix) = ".pdf" THEN AllPages(file, Len(file.pages))
    ELSE IF Lower(file.suffix) = ".docx" THEN ExtractDocx(file)
    ELSE ExtractXlsx(file)

RECURSIVE ChunksOfNonFailing(_)
ChunksOfNonFailing(n) ==
    IF n = 0 THEN <<>>
    ELSE ChunksOfNonFailing(n - 1)
         \o (IF Failed(n) THEN <<>> ELSE FileChunks(folder.entries[n]))

\* C9: a file whose extraction fails, at its opening or at any page,
\* contributes no chunk; the loader goes on with the next entry and
\* returns the chunks of the non-failing files in traversal order.
C9_FailureIsolatedPerFile ==
    /\ lpc \in {"loop", "pdf"} =>
           /\ all_docs = ChunksOfNonFailing(entry_idx - 1)
           /\ \A i \in 1..(entry_idx - 1) :
                  Supported(folder.entries[i]) => Logged(i)
    /\ lpc = "returned" =>
           /\ all_docs = ChunksOfNonFailing(Len(folder.entries))
           /\ \A i \in 1..Len(folder.entries) :
                  Supported(folder.entries[i]) => Logged(i)
           /\ folder.exists => entry_idx = Len(folder.entries) + 1

C9_Witness ==
    /\ lpc = "returned"
    /\ \E i, j \in 1..Len(folder.entries) :
           /\ i < j
           /\ \E e \in Range(log) :
                  /\ e[1] = "Fehler" /\ e[2] = i /\ e[3] >= 1
                  /\ SegmentPage(folder.entries[i].pages[1],
                                 folder.entries[i].name, 0) # <<>>
           /\ ~Failed(j)
           /\ FileChunks(folder.entries[j]) # <<>>
    /\ all_docs # <<>>

StartsLowerCase(line) == line[1] \in LowerLetters

RECURSIVE LogicalLines(_, _)
LogicalLines(rest, logical) ==
    IF rest = <<>> THEN logical
    ELSE IF StartsLowerCase(Head(rest)) /\ logical # <<>>
         THEN LogicalLines(Tail(rest),
                  [logical EXCEPT ![Len(logical)] = @ \o <<" ">> \o Head(rest)])
         ELSE LogicalLines(Tail(rest), Append(logical, Head(rest)))

\* C10: the page string that is split into chunks consists of the logical
\* lines: a non-empty line starting with a lower-case letter is appended
\* with one space to the logical line before it, any other non-empty line
\* starts a logical line; the pieces the page is split into are pieces of
\* that merged text.
C10_PageTextIsLineMerged ==
    spc \in {"text", "split", "emitted"} =>
        LET merged == Join(<<"\n">>,
                           LogicalLines(StrippedNonEmpty(SplitLines(raw_text)),
                                        <<>>))
        IN  /\ page_text = merged
            /\ spc # "text" => Join(<<>>, paragraph_chunks) = merged

----------------------------------------------------------------------------
(* The assembly walk as a state machine *)

\* the shortest-first ordering, equal lengths in the order of arrival
ShortestFirst(list) ==
    LET n == Len(list)
        p == CHOOSE f \in [1..n -> 1..n] :
                 /\ \A i, j \in 1..n : i # j => f[i] # f[j]
                 /\ \A i, j \in 1..n : i < j =>
                        \/ StrLen(list[f[i]].page_content)
                             < StrLen(list[f[j]].page_content)
                        \/ /\ StrLen(list[f[i]].page_content)
                                = StrLen(list[f[j]].page_content)
                           /\ f[i] < f[j]
    IN  [i \in 1..n |-> list[p[i]]]

RECURSIVE DropRepeatedPages(_, _)
DropRepeatedPages(list, i) ==
    IF i > Len(list) THEN <<>>
    ELSE (IF \E j \in 1..(i - 1) : PageKey(list[j]) = PageKey(list[i])
          THEN <<>> ELSE <<list[i]>>)
         \o DropRepeatedPages(list, i + 1)

FittingPrefix(list) ==
    LET n == CHOOSE m \in 0..Len(list) :
                 /\ SumTrimmed(SubSeq(list, 1, m)) <= 4000
                 /\ \A l \in (m + 1)..Len(list) :
                        SumTrimmed(SubSeq(list, 1, l)) > 4000
    IN  SubSeq(list, 1, n)

AssembledAlone(fused) ==
    FittingPrefix(DropRepeatedPages(ShortestFirst(fused), 1))

WalkState ==
    IF pc = "walk" THEN (IF pos = 1 THEN "EMPTY" ELSE "ACCUMULATING")
    ELSE IF pc \in {"after", "llm", "ret151", "ret195", "ret215", "ret222"}
         THEN (IF pos <= Len(sorted_docs) THEN "FULL" ELSE "EXHAUSTED")
         ELSE "NONE"

WalkTransitions ==
    { <<"NONE", "NONE">>, <<"NONE", "EMPTY">>,
      <<"EMPTY", "ACCUMULATING">>, <<"EMPTY", "FULL">>,
      <<"ACCUMULATING", "ACCUMULATING">>, <<"ACCUMULATING", "FULL">>,
      <<"ACCUMULATING", "EXHAUSTED">>,
      <<"FULL", "FULL">>, <<"EXHAUSTED", "EXHAUSTED">> }

UnseenAndTooLong ==
    /\ pc = "walk"
    /\ pos <= Len(sorted_docs)
    /\ \A i \in 1..Len(included_docs) :
           PageKey(included_docs[i]) # PageKey(sorted_docs[pos])
    /\ total_chars + StrLen(Strip(sorted_docs[pos].page_content)) > 4000

AlreadySeen ==
    /\ pc = "walk"
    /\ pos <= Len(sorted_docs)
    /\ \E i \in 1..Len(included_docs) :
           PageKey(included_docs[i]) = PageKey(sorted_docs[pos])

\* C12: the walk moves EMPTY -> ACCUMULATING -> {FULL | EXHAUSTED} and,
\* once started, reaches one of the two terminal states and stays there;
\* a chunk whose key was seen is skipped and the walk goes on, the first
\* unseen chunk that does not fit ends the walk and nothing is appended
\* afterwards; included is the longest budget-fitting prefix of the
\* stable shortest-first ordering of the fused list without the chunks
\* whose (source, page_number) occurred earlier in that ordering.
C12_WalkStateMachine ==
    /\ [](WalkState \in {"FULL", "EXHAUSTED"} =>
              included_docs = AssembledAlone(docs))
    /\ [](pc = "walk" => sorted_docs = ShortestFirst(docs))
    /\ [][/\ <<WalkState, WalkState'>> \in WalkTransitions
          /\ AlreadySeen =>
                 pc' = "walk" /\ pos' = pos + 1 /\ included_docs' = included_docs
          /\ UnseenAndTooLong => WalkState' = "FULL"
          /\ WalkState \in {"FULL", "EXHAUSTED"} =>
                 included_docs' = included_docs /\ context' = context]_vars
    /\ (pc = "walk" ~> WalkState \in {"FULL", "EXHAUSTED"})

C12_Witness ==
    /\ WalkState = "FULL"
    /\ pc = "ret215"
    /\ included_docs # <<>>
    /\ pos <= Len(sorted_docs)
    /\ \E i, j \in 1..Len(sorted_docs) :
           /\ i < j /\ j < pos
           /\ PageKey(sorted_docs[i]) = PageKey(sorted_docs[j])
           /\ sorted_docs[i] \in Range(included_docs)
           /\ sorted_docs[j] \notin Range(included_docs)

----------------------------------------------------------------------------
(* Requests served at the same time *)

FusedAlone(sparse, dense) ==
    LET expected == Unclaimed(sparse \o dense, 1)
    IN  SubSeq(expected, 1, Min(k, Len(expected)))

\* C11: in every interleaving of the requests, each request's fused list,
\* included list, context and citations are those the request produces
\* when it runs alone against the same retrievers.
C11_RequestsDoNotInterfere ==
    \A r \in Requests :
        LET L == reqs[r]
        IN  /\ L.pc \notin {"idle"} =>
                   /\ L.sparse_docs = SparseResult(L.question)
                   /\ L.dense_docs = DenseResult(L.question)
            /\ L.pc \notin {"idle", "merge_sparse", "merge_dense"} =>
                   L.docs = FusedAlone(L.sparse_docs, L.dense_docs)
            /\ L.pc \in {"after", "llm", "ret151", "ret195", "ret215", "ret222"} =>
                   /\ L.included_docs = AssembledAlone(L.docs)
                   /\ L.context = WholeChunks(L.included_docs)
                   /\ L.total_chars = SumTrimmed(L.included_docs)
            /\ L.pc \in {"llm", "ret195", "ret215", "ret222"} =>
                   L.prompt_context = Strip(WholeChunks(AssembledAlone(L.docs)))
            /\ L.pc \in {"ret151", "ret195", "ret215"} =>
                   /\ Len(L.result.quellen) = Len(L.included_docs)
                   /\ \A i \in 1..Len(L.included_docs) :
                          /\ <<L.result.quellen[i][1]>>
                                = Get(L.included_docs[i].metadata, "source")
                          /\ "page_number" \in DOMAIN L.included_docs[i].metadata =>
                                 L.result.quellen[i][3]
                                   = ToString(L.included_docs[i].metadata["page_number"][1])

C11_Witness ==
    /\ reqs["r1"].pc = "walk"
    /\ reqs["r2"].pc = "walk"
    /\ reqs["r1"].question # reqs["r2"].question
    /\ reqs["r1"].included_docs # <<>>
    /\ reqs["r2"].pos <= Len(reqs["r2"].sorted_docs)
    /\ \E i \in 1..Len(reqs["r1"].included_docs) :
           PageKey(reqs["r1"].included_docs[i])
             = PageKey(reqs["r2"].sorted_docs[reqs["r2"].pos])
    /\ \A i \in 1..Len(reqs["r2"].included_docs) :
           PageKey(reqs["r2"].included_docs[i])
             # PageKey(reqs["r2"].sorted_docs[reqs["r2"].pos])

----------------------------------------------------------------------------
(* The index searched by /ask *)

\* C13: over every sequence of /build, /query and /ask, the chunk sets of
\* the dense and of the sparse retriever stay what they were made from at
\* process start (the index persisted then); /ask finds only chunks of
\* these sets; a /build that saves an index replaces the persisted index,
\* and /query searches the persisted index as it is at that moment.
C13_AskIndexFixedAtStart ==
    /\ vs_index = disk_index
    /\ [](/\ bm25_docs \subseteq vs_index
          /\ Cardinality(bm25_docs)
               = Min(SearchAllK, Cardinality(vs_index)))
    /\ [][vs_index' = vs_index /\ bm25_docs' = bm25_docs]_vars
    /\ [](pc # "idle" =>
              /\ Range(sparse_docs) \subseteq bm25_docs
              /\ Range(dense_docs) \subseteq vs_index
              /\ Range(docs) \subseteq bm25_docs \cup vs_index)
    /\ [](build_response = "ok" /\ build_docs # <<>> =>
              disk_index = Range(build_docs))
    /\ [][query_docs' # query_docs =>
              /\ Range(query_docs') \subseteq disk_index
              /\ Len(query_docs') = Min(QueryK, Cardinality(disk_index))]_vars

C13_Witness ==
    /\ build_response = "ok"
    /\ build_docs # <<>>
    /\ disk_index # vs_index
    /\ pc = "ret215"
    /\ \E i \in 1..Len(included_docs) : included_docs[i] \notin disk_index
    /\ \E i \in 1..Len(query_docs) : query_docs[i] \notin vs_index

====
